---- MODULE Spec2Model ----
(***************************************************************************)
(* Right-sizing engine: the EC2 recommender, the reserved-instance         *)
(* recommender and the cost optimizer, as state machines over the          *)
(* per-instance analysis records.                                          *)
(*                                                                         *)
(* Money is an integer number of 1/10000 dollar, so that 0.0052 * 730 is   *)
(* 52 * 730.  A string is the sequence of its tokens, "." being a token of *)
(* its own: "m5.xlarge" is <<"m5", ".", "xlarge">>.                        *)
(***************************************************************************)
EXTENDS Integers, Sequences, FiniteSets, TLC

VARIABLES
    pc,                  \* position in main / in the function under analysis
    config,              \* the configuration the constructors read
    analysis_results,    \* the list of per-instance analysis records
    idx,                 \* loop position of the running recommender
    recommendations,     \* the list the running recommender is building
    ec2_recommendations, \* value returned by EC2Recommender.generate_recommendations
    instance_groups,     \* ReservedInstanceRecommender: groups in insertion order
    ri_recommendations,  \* value returned by ReservedInstanceRecommender.generate_recommendations
    savings_summary,     \* value returned by CostOptimizer.calculate_total_savings
    stats                \* value returned by CostOptimizer.get_summary_stats

vars == <<pc, config, analysis_results, idx, recommendations, ec2_recommendations,
          instance_groups, ri_recommendations, savings_summary, stats>>

\* Python's None and the empty dict {}
None == [py |-> "None"]
EmptyDict == [py |-> "{}"]

\* truth value of an optional dict
Truthy(x) == x # None /\ x # EmptyDict

(***************************************************************************)
(* Bounds of the model.                                                    *)
(***************************************************************************)
\* longest list of analysis records given to a recommender
MaxSummaries == 2
\* longest list of recommendation records given to the cost optimizer
MaxRecs == 2
\* most member instances of a reserved record given to the cost optimizer
MaxMembers == 2
\* longest list of analysis records given to the reserved-instance recommender alone
MaxRiSummaries == 3
\* most datapoints CloudWatch returns for one metric
MaxDatapoints == 4

(***************************************************************************)
(* Strings.                                                                *)
(***************************************************************************)
Dot == "."

\* str.split('.'): the list of the parts between the dots
RECURSIVE SplitFrom(_, _, _)
SplitFrom(s, k, cur) ==
    IF k > Len(s) THEN <<cur>>
    ELSE IF s[k] = Dot THEN <<cur>> \o SplitFrom(s, k + 1, <<>>)
    ELSE SplitFrom(s, k + 1, Append(cur, s[k]))

Split(s) == SplitFrom(s, 1, <<>>)

\* f"{family}.{size}"
TypeName(family, size) == family \o <<Dot>> \o size

\* the string made of one token
Str(t) == <<t>>

\* list.index(x): 0-based position of the first occurrence
IndexOf(list, x) == (CHOOSE k \in 1..Len(list) :
                        list[k] = x /\ \A j \in 1..(k - 1) : list[j] # x) - 1

InList(list, x) == \E k \in 1..Len(list) : list[k] = x

\* list[i], 0-based; a negative index counts from the end
PyIndex(list, i) == IF i < 0 THEN list[Len(list) + i + 1] ELSE list[i + 1]

(***************************************************************************)
(* EC2Recommender: tables.                                                 *)
(***************************************************************************)
instance_sizes ==
    <<Str("nano"), Str("micro"), Str("small"), Str("medium"), Str("large"),
      Str("xlarge"), Str("2xlarge"), Str("4xlarge"), Str("8xlarge")>>

HoursPerMonth == 730

\* _build_pricing_map: <<type, monthly price>>, hourly rates in 1/10000 dollar
pricing ==
    { <<TypeName(Str("t3"), Str("nano")),     52 * HoursPerMonth>>,
      <<TypeName(Str("t3"), Str("micro")),    104 * HoursPerMonth>>,
      <<TypeName(Str("t3"), Str("small")),    208 * HoursPerMonth>>,
      <<TypeName(Str("t3"), Str("medium")),   416 * HoursPerMonth>>,
      <<TypeName(Str("t3"), Str("large")),    832 * HoursPerMonth>>,
      <<TypeName(Str("t3"), Str("xlarge")),   1664 * HoursPerMonth>>,
      <<TypeName(Str("t3"), Str("2xlarge")),  3328 * HoursPerMonth>>,
      <<TypeName(Str("t3a"), Str("nano")),    47 * HoursPerMonth>>,
      <<TypeName(Str("t3a"), Str("micro")),   94 * HoursPerMonth>>,
      <<TypeName(Str("t3a"), Str("small")),   188 * HoursPerMonth>>,
      <<TypeName(Str("t3a"), Str("medium")),  376 * HoursPerMonth>>,
      <<TypeName(Str("t3a"), Str("large")),   752 * HoursPerMonth>>,
      <<TypeName(Str("t3a"), Str("xlarge")),  1504 * HoursPerMonth>>,
      <<TypeName(Str("t3a"), Str("2xlarge")), 3008 * HoursPerMonth>>,
      <<TypeName(Str("m5"), Str("large")),    960 * HoursPerMonth>>,
      <<TypeName(Str("m5"), Str("xlarge")),   1920 * HoursPerMonth>>,
      <<TypeName(Str("m5"), Str("2xlarge")),  3840 * HoursPerMonth>>,
      <<TypeName(Str("m5"), Str("4xlarge")),  7680 * HoursPerMonth>>,
      <<TypeName(Str("m5a"), Str("large")),   860 * HoursPerMonth>>,
      <<TypeName(Str("m5a"), Str("xlarge")),  1720 * HoursPerMonth>>,
      <<TypeName(Str("m5a"), Str("2xlarge")), 3440 * HoursPerMonth>>,
      <<TypeName(Str("m5a"), Str("4xlarge")), 6880 * HoursPerMonth>>,
      <<TypeName(Str("c5"), Str("large")),    850 * HoursPerMonth>>,
      <<TypeName(Str("c5"), Str("xlarge")),   1700 * HoursPerMonth>>,
      <<TypeName(Str("c5"), Str("2xlarge")),  3400 * HoursPerMonth>>,
      <<TypeName(Str("c5"), Str("4xlarge")),  6800 * HoursPerMonth>>,
      <<TypeName(Str("c5a"), Str("large")),   770 * HoursPerMonth>>,
      <<TypeName(Str("c5a"), Str("xlarge")),  1540 * HoursPerMonth>>,
      <<TypeName(Str("c5a"), Str("2xlarge")), 3080 * HoursPerMonth>>,
      <<TypeName(Str("c5a"), Str("4xlarge")), 6160 * HoursPerMonth>>,
      <<TypeName(Str("r5"), Str("large")),    1260 * HoursPerMonth>>,
      <<TypeName(Str("r5"), Str("xlarge")),   2520 * HoursPerMonth>>,
      <<TypeName(Str("r5"), Str("2xlarge")),  5040 * HoursPerMonth>>,
      <<TypeName(Str("r5a"), Str("large")),   1130 * HoursPerMonth>>,
      <<TypeName(Str("r5a"), Str("xlarge")),  2260 * HoursPerMonth>>,
      <<TypeName(Str("r5a"), Str("2xlarge")), 4520 * HoursPerMonth>> }

\* dict.get(key, default) on a table of <<key, value>> pairs
TableHas(table, key) == \E e \in table : e[1] = key
TableGet(table, key, default) ==
    IF TableHas(table, key) THEN (CHOOSE e \in table : e[1] = key)[2] ELSE default

\* premium_to_budget of _recommend_family_switch
premium_to_budget ==
    { <<Str("m5"), Str("m5a")>>, <<Str("c5"), Str("c5a")>>,
      <<Str("r5"), Str("r5a")>>, <<Str("t3"), Str("t3a")>> }

\* x * num / den, without the intermediate product x * num
Scale(x, num, den) == (x \div den) * num + ((x % den) * num) \div den

\* the whole amount where half of it is due
TimesHalf_Whole(x) == x

\* x * 0.5 and x * 0.90
TimesHalf(x) == Scale(x, 5, 10)
TimesNineTenths(x) == Scale(x, 90, 100)

(***************************************************************************)
(* EC2Recommender: the two strategies.                                     *)
(***************************************************************************)
\* the gate with the threshold itself counted as underutilized
Underutilized_Inclusive(p95_cpu) == p95_cpu <= config.ec2.cpu_underutilized_threshold

\* "if p95_cpu < self.cpu_threshold"
Underutilized(p95_cpu) == p95_cpu < config.ec2.cpu_underutilized_threshold

\* the smallest-rung test that never fires
SmallestRung_Never(current_index) == current_index < 0

\* "if current_index == 0: return None"
SmallestRung(current_index) == current_index = 0

\* the size two rungs below
RecommendedSize_SkipsRung(current_index) == PyIndex(instance_sizes, current_index - 2)

\* "recommended_size = self.instance_sizes[current_index - 1]"
RecommendedSize(current_index) == PyIndex(instance_sizes, current_index - 1)

\* the fallback taken at nine tenths of the current cost
DownsizeCost_NineTenths(recommended_type, current_cost) ==
    TableGet(pricing, recommended_type, TimesNineTenths(current_cost))

\* "recommended_cost = self.pricing.get(recommended_type, current_cost * 0.5)"
DownsizeCost(recommended_type, current_cost) ==
    TableGet(pricing, recommended_type, TimesHalf(current_cost))

\* the downsize filter that also rejects savings equal to the threshold
DownsizeRejected_Strict(monthly_savings) ==
    monthly_savings <= config.ec2.min_savings_threshold

\* "if monthly_savings < self.min_savings: return None", in _recommend_downsize
DownsizeRejected(monthly_savings) == monthly_savings < config.ec2.min_savings_threshold

\* "if monthly_savings < self.min_savings: return None", in _recommend_family_switch
SwitchRejected(monthly_savings) == monthly_savings < config.ec2.min_savings_threshold

\* the allow-list test left out
NotAllowed_Omitted(budget_family) == FALSE

\* "if budget_family not in self.allowed_families: return None"
NotAllowed(budget_family) == budget_family \notin config.ec2.allowed_families

\* a type identifier with a family and a size, and possibly more parts
NotTwoParts_AtLeastTwo(parts) == Len(parts) < 2

\* if len(parts) != 2: return recommendations
NotTwoParts(parts) == Len(parts) # 2

CpuSnapshot(analysis, p95_cpu) ==
    [average |-> analysis.metrics.cpu_utilization.average,
     p95     |-> p95_cpu,
     max     |-> analysis.metrics.cpu_utilization.max]

\* _recommend_downsize: None or one recommendation record
_recommend_downsize(analysis, family, current_size, current_cost, p95_cpu) ==
    IF ~InList(instance_sizes, current_size) THEN None
    ELSE
      LET current_index == IndexOf(instance_sizes, current_size) IN
      IF SmallestRung(current_index) THEN None
      ELSE
        LET recommended_size == RecommendedSize(current_index)
            recommended_type == TypeName(family, recommended_size)
            recommended_cost == DownsizeCost(recommended_type, current_cost)
            monthly_savings  == current_cost - recommended_cost
        IN
        IF DownsizeRejected(monthly_savings) THEN None
        ELSE
          [instance_id |-> analysis.instance_id,
           name |-> analysis.name,
           region |-> analysis.region,
           current_type |-> TypeName(family, current_size),
           recommended_type |-> recommended_type,
           strategy |-> "downsize",
           reason |-> [text |-> "P95 CPU usage, can downsize safely", p95 |-> p95_cpu],
           current_monthly_cost |-> current_cost,
           recommended_monthly_cost |-> recommended_cost,
           monthly_savings |-> monthly_savings,
           annual_savings |-> monthly_savings * 12,
           cpu_utilization |-> CpuSnapshot(analysis, p95_cpu)]

\* _recommend_family_switch: None or one recommendation record
_recommend_family_switch(analysis, current_family, current_size, current_cost, p95_cpu) ==
    IF ~TableHas(premium_to_budget, current_family) THEN None
    ELSE
      LET budget_family == TableGet(premium_to_budget, current_family, None) IN
      IF NotAllowed(budget_family) THEN None
      ELSE
        LET recommended_type == TypeName(budget_family, current_size)
            recommended_cost == TimesNineTenths(current_cost)
            monthly_savings  == current_cost - recommended_cost
        IN
        IF SwitchRejected(monthly_savings) THEN None
        ELSE
          [instance_id |-> analysis.instance_id,
           name |-> analysis.name,
           region |-> analysis.region,
           current_type |-> TypeName(current_family, current_size),
           recommended_type |-> recommended_type,
           strategy |-> "family_switch",
           reason |-> [text |-> "Switch to AMD-based family for same performance at lower cost",
                       budget_family |-> budget_family],
           current_monthly_cost |-> current_cost,
           recommended_monthly_cost |-> recommended_cost,
           monthly_savings |-> monthly_savings,
           annual_savings |-> monthly_savings * 12,
           cpu_utilization |-> CpuSnapshot(analysis, p95_cpu)]

\* the family switch kept only where there is no downsize
AppendBoth_FirstOnly(downsize, switch) == IF downsize # <<>> THEN downsize ELSE switch

\* the two "if ...: recommendations.append(...)" of _find_better_instance_types,
\* one after the other
AppendBoth(downsize, switch) == downsize \o switch

\* _find_better_instance_types: the list of 0, 1 or 2 recommendations of one instance
_find_better_instance_types(analysis, current_type, p95_cpu) ==
    LET current_cost == analysis.current_cost
        parts == Split(current_type)
    IN
    IF NotTwoParts(parts) THEN <<>>
    ELSE
      LET current_family == parts[1]
          current_size   == parts[2]
          downsize_rec == _recommend_downsize(analysis, current_family, current_size,
                                              current_cost, p95_cpu)
          family_rec   == _recommend_family_switch(analysis, current_family, current_size,
                                                   current_cost, p95_cpu)
      IN
      AppendBoth(IF downsize_rec # None THEN <<downsize_rec>> ELSE <<>>,
                 IF family_rec # None THEN <<family_rec>> ELSE <<>>)

\* a sort that leaves the list as it was built
SortDesc_Unsorted(list, key) == list

\* an ascending sort
RECURSIVE InsertDesc_Ascending(_, _, _)
InsertDesc_Ascending(sorted, r, key) ==
    IF sorted = <<>> THEN <<r>>
    ELSE IF r[key] < sorted[1][key] THEN <<r>> \o sorted
    ELSE <<sorted[1]>> \o InsertDesc_Ascending(Tail(sorted), r, key)

\* a descending sort that puts a later record before the earlier ones of equal key
RECURSIVE InsertDesc_Unstable(_, _, _)
InsertDesc_Unstable(sorted, r, key) ==
    IF sorted = <<>> THEN <<r>>
    ELSE IF r[key] >= sorted[1][key] THEN <<r>> \o sorted
    ELSE <<sorted[1]>> \o InsertDesc_Unstable(Tail(sorted), r, key)

\* list.sort(key=..., reverse=True): stable, descending by the key field
RECURSIVE InsertDesc(_, _, _)
InsertDesc(sorted, r, key) ==
    IF sorted = <<>> THEN <<r>>
    ELSE IF r[key] > sorted[1][key] THEN <<r>> \o sorted
    ELSE <<sorted[1]>> \o InsertDesc(Tail(sorted), r, key)

RECURSIVE SortDesc(_, _)
SortDesc(list, key) ==
    IF list = <<>> THEN <<>>
    ELSE InsertDesc(SortDesc(SubSeq(list, 1, Len(list) - 1), key), list[Len(list)], key)

\* sum(r[field] for r in list)
RECURSIVE SumField(_, _)
SumField(list, field) ==
    IF list = <<>> THEN 0 ELSE list[1][field] + SumField(Tail(list), field)

(***************************************************************************)
(* EC2Recommender.generate_recommendations, one action per loop iteration  *)
(* and one for the sort and return.                                        *)
(***************************************************************************)
\* the recommendations one analysis record adds to the list (lines 26-44)
RecsOfAnalysis(analysis) ==
    LET current_type == analysis.instance_type
        cpu_metrics  == analysis.metrics.cpu_utilization
    IN
    IF ~Truthy(cpu_metrics) THEN <<>>
    ELSE
      LET p95_cpu == cpu_metrics.p95 IN
      IF Underutilized(p95_cpu)
      THEN _find_better_instance_types(analysis, current_type, p95_cpu)
      ELSE <<>>

EC2Iterate ==
    /\ pc = "ec2_loop"
    /\ idx <= Len(analysis_results)
    /\ LET analysis == analysis_results[idx] IN
       IF "cpu_utilization" \notin DOMAIN analysis.metrics
       THEN /\ pc' = "KeyError"
            /\ UNCHANGED <<idx, recommendations>>
       ELSE /\ recommendations' = recommendations \o RecsOfAnalysis(analysis)
            /\ idx' = idx + 1
            /\ pc' = pc
    /\ UNCHANGED <<config, analysis_results, ec2_recommendations, instance_groups,
                   ri_recommendations, savings_summary, stats>>

EC2Return ==
    /\ pc = "ec2_loop"
    /\ idx > Len(analysis_results)
    /\ ec2_recommendations' = SortDesc(recommendations, "monthly_savings")
    /\ pc' = "ec2_returned"
    /\ UNCHANGED <<config, analysis_results, idx, recommendations, instance_groups,
                   ri_recommendations, savings_summary, stats>>

(***************************************************************************)
(* ReservedInstanceRecommender.                                            *)
(***************************************************************************)
\* self.discount_rates, in percent: <<<<term_years, payment_option>>, rate>>
discount_rates ==
    { << <<1, "all_upfront">>, 40 >>, << <<1, "partial_upfront">>, 35 >>,
      << <<1, "no_upfront">>, 30 >>,
      << <<3, "all_upfront">>, 60 >>, << <<3, "partial_upfront">>, 55 >>,
      << <<3, "no_upfront">>, 50 >> }

\* x * discount_rate, the rate in percent
TimesOneMinus_TimesRate(x, rate) == Scale(x, rate, 100)

\* x * (1 - discount_rate), the rate in percent
TimesOneMinus(x, rate) == Scale(x, 100 - rate, 100)

\* discount_rate * 100 as a plain number, the rate given in hundredths
Times100(rate) == (rate * 100) \div 100

\* the savings of the whole term taken for the annual savings
AnnualSavings_OverTerm(monthly_savings) ==
    monthly_savings * 12 * config.reserved_instances.term_years

\* annual_savings = monthly_savings * 12
AnnualSavings(monthly_savings) == monthly_savings * 12

\* groups of a single instance dropped
HasInstances_MoreThanOne(count) == count > 1

\* if count > 0
HasInstances(count) == count > 0

\* _group_instances: the groups in order of first occurrence of their key
RECURSIVE _group_instances(_)
_group_instances(results) ==
    IF results = <<>> THEN <<>>
    ELSE
      LET before   == _group_instances(SubSeq(results, 1, Len(results) - 1))
          analysis == results[Len(results)]
          key      == <<analysis.region, analysis.instance_type>>
      IN
      IF \E g \in 1..Len(before) : before[g].key = key
      THEN [g \in 1..Len(before) |->
              IF before[g].key = key
              THEN [before[g] EXCEPT !.instances = Append(@, analysis)]
              ELSE before[g]]
      ELSE Append(before, [key |-> key, instances |-> <<analysis>>])

\* _calculate_upfront_payment
_calculate_upfront_payment(monthly_cost, discount_rate) ==
    LET annual_cost  == monthly_cost * 12
        term_cost    == annual_cost * config.reserved_instances.term_years
        ri_term_cost == TimesOneMinus(term_cost, discount_rate)
    IN
    IF config.reserved_instances.payment_option = "all_upfront" THEN ri_term_cost
    ELSE IF config.reserved_instances.payment_option = "partial_upfront"
         THEN TimesHalf(ri_term_cost)
         ELSE 0

\* the key of self.discount_rates[self.term_years][self.payment_option]
RateKey == <<config.reserved_instances.term_years, config.reserved_instances.payment_option>>

\* a lookup that falls back to no discount where the table has no entry
RateEntries_Defaulted ==
    IF TableHas(discount_rates, RateKey)
    THEN { e[2] : e \in { d \in discount_rates : d[1] = RateKey } }
    ELSE {0}

\* self.discount_rates[self.term_years][self.payment_option]: the entry under the
\* key, and no entry where the subscript raises KeyError
RateEntries == { e[2] : e \in { d \in discount_rates : d[1] = RateKey } }

\* _create_ri_recommendation, for a configuration the discount table covers
_create_ri_recommendation(region, instance_type, instances) ==
    LET count              == Len(instances)
        total_monthly_cost == SumField(instances, "current_cost")
        discount_rate      == CHOOSE r \in RateEntries : TRUE
        ri_monthly_cost    == TimesOneMinus(total_monthly_cost, discount_rate)
        monthly_savings    == total_monthly_cost - ri_monthly_cost
        annual_savings     == AnnualSavings(monthly_savings)
        total_savings      == annual_savings * config.reserved_instances.term_years
        upfront_payment    == _calculate_upfront_payment(total_monthly_cost, discount_rate)
    IN
    [region |-> region,
     instance_type |-> instance_type,
     instance_count |-> count,
     term_years |-> config.reserved_instances.term_years,
     payment_option |-> config.reserved_instances.payment_option,
     current_monthly_cost |-> total_monthly_cost,
     ri_monthly_cost |-> ri_monthly_cost,
     monthly_savings |-> monthly_savings,
     annual_savings |-> annual_savings,
     total_savings_over_term |-> total_savings,
     upfront_payment |-> upfront_payment,
     discount_rate |-> Times100(discount_rate),
     instances |-> [k \in 1..count |->
                      [instance_id |-> instances[k].instance_id,
                       name |-> instances[k].name]]]

\* the groups built after the input list is sorted in place by cost
RIGroup_SortsInput ==
    /\ pc = "ec2_returned"
    /\ analysis_results' = SortDesc(analysis_results, "current_cost")
    /\ instance_groups' = _group_instances(analysis_results')
    /\ recommendations' = <<>>
    /\ idx' = 1
    /\ pc' = "ri_loop"
    /\ UNCHANGED <<config, ec2_recommendations, ri_recommendations,
                   savings_summary, stats>>

\* generate_recommendations up to the loop: the groups are built
RIGroup ==
    /\ pc = "ec2_returned"
    /\ instance_groups' = _group_instances(analysis_results)
    /\ recommendations' = <<>>
    /\ idx' = 1
    /\ pc' = "ri_loop"
    /\ UNCHANGED <<config, analysis_results, ec2_recommendations, ri_recommendations,
                   savings_summary, stats>>

\* one iteration of the loop over the groups
RIIterate ==
    /\ pc = "ri_loop"
    /\ idx <= Len(instance_groups)
    /\ LET group == instance_groups[idx] IN
       IF HasInstances(Len(group.instances)) /\ RateEntries = {}
       THEN /\ pc' = "KeyError"
            /\ UNCHANGED <<idx, recommendations>>
       ELSE /\ recommendations' =
                 IF HasInstances(Len(group.instances))
                 THEN Append(recommendations,
                             _create_ri_recommendation(group.key[1], group.key[2],
                                                       group.instances))
                 ELSE recommendations
            /\ idx' = idx + 1
            /\ pc' = pc
    /\ UNCHANGED <<config, analysis_results, ec2_recommendations, instance_groups,
                   ri_recommendations, savings_summary, stats>>

RIReturn ==
    /\ pc = "ri_loop"
    /\ idx > Len(instance_groups)
    /\ ri_recommendations' = SortDesc(recommendations, "annual_savings")
    /\ pc' = "ri_returned"
    /\ UNCHANGED <<config, analysis_results, idx, recommendations, ec2_recommendations,
                   instance_groups, savings_summary, stats>>

(***************************************************************************)
(* CostOptimizer.                                                          *)
(***************************************************************************)
\* the reserved monthly savings summed over the annual_savings field
RiMonthlySavings_WrongField(ri_recs) == SumField(ri_recs, "annual_savings")

\* sum(r['monthly_savings'] for r in ri_recommendations)
RiMonthlySavings(ri_recs) == SumField(ri_recs, "monthly_savings")

\* calculate_total_savings
calculate_total_savings(ec2_recs, ri_recs) ==
    LET ec2_monthly_savings   == SumField(ec2_recs, "monthly_savings")
        ec2_annual_savings    == ec2_monthly_savings * 12
        ri_monthly_savings    == RiMonthlySavings(ri_recs)
        ri_annual_savings     == SumField(ri_recs, "annual_savings")
        total_monthly_savings == ec2_monthly_savings + ri_monthly_savings
        total_annual_savings  == ec2_annual_savings + ri_annual_savings
    IN
    [ec2_rightsizing |->
        [count |-> Len(ec2_recs),
         monthly_savings |-> ec2_monthly_savings,
         annual_savings |-> ec2_annual_savings],
     reserved_instances |->
        [count |-> Len(ri_recs),
         monthly_savings |-> ri_monthly_savings,
         annual_savings |-> ri_annual_savings],
     total |->
        [monthly_savings |-> total_monthly_savings,
         annual_savings |-> total_annual_savings]]

\* a dict with no key
NoKeys == [k \in {} |-> 0]

\* if k not in d: d[k] = 0; d[k] += n
DictAdd(d, k, n) ==
    IF k \in DOMAIN d THEN [d EXCEPT ![k] = @ + n]
    ELSE [j \in DOMAIN d \cup {k} |-> IF j = k THEN 0 + n ELSE d[j]]

\* for rec in list: d[rec[field]] += 1
RECURSIVE CountBy(_, _, _)
CountBy(d, list, field) ==
    IF list = <<>> THEN d
    ELSE CountBy(DictAdd(d, list[1][field], 1), Tail(list), field)

\* one unit per reserved recommendation
RECURSIVE CountInstances_PerRecommendation(_, _)
CountInstances_PerRecommendation(d, list) ==
    IF list = <<>> THEN d
    ELSE CountInstances_PerRecommendation(DictAdd(d, list[1].region, 1), Tail(list))

\* for rec in list: d[rec['region']] += len(rec['instances'])
RECURSIVE CountInstances(_, _)
CountInstances(d, list) ==
    IF list = <<>> THEN d
    ELSE CountInstances(DictAdd(d, list[1].region, Len(list[1].instances)), Tail(list))

\* stats['by_strategy']['reserved_instances'] = len(ri_recommendations)
DictSet(d, k, v) == [j \in DOMAIN d \cup {k} |-> IF j = k THEN v ELSE d[j]]

\* get_summary_stats
get_summary_stats(ec2_recs, ri_recs) ==
    LET strategies == CountBy(NoKeys, ec2_recs, "strategy") IN
    [total_recommendations |-> Len(ec2_recs) + Len(ri_recs),
     by_strategy |-> IF ri_recs # <<>>
                     THEN DictSet(strategies, "reserved_instances", Len(ri_recs))
                     ELSE strategies,
     by_region |-> CountInstances(CountBy(NoKeys, ec2_recs, "region"), ri_recs)]

\* main, step 3: optimizer.calculate_total_savings(...)
CalculateTotalSavings ==
    /\ pc = "ri_returned"
    /\ savings_summary' = calculate_total_savings(ec2_recommendations, ri_recommendations)
    /\ pc' = "savings_done"
    /\ UNCHANGED <<config, analysis_results, idx, recommendations, ec2_recommendations,
                   instance_groups, ri_recommendations, stats>>

\* main, step 3: optimizer.get_summary_stats(...)
GetSummaryStats ==
    /\ pc = "savings_done"
    /\ stats' = get_summary_stats(ec2_recommendations, ri_recommendations)
    /\ pc' = "done"
    /\ UNCHANGED <<config, analysis_results, idx, recommendations, ec2_recommendations,
                   instance_groups, ri_recommendations, savings_summary>>

(***************************************************************************)
(* EC2Analyzer: what the recommenders are given.                           *)
(***************************************************************************)
\* the pricing table of _estimate_monthly_cost: hourly rates in 1/10000 dollar
hourly_pricing ==
    { <<TypeName(Str("t3"), Str("micro")),   104>>,
      <<TypeName(Str("t3"), Str("small")),   208>>,
      <<TypeName(Str("t3"), Str("medium")),  416>>,
      <<TypeName(Str("t3"), Str("large")),   832>>,
      <<TypeName(Str("t3"), Str("xlarge")),  1664>>,
      <<TypeName(Str("t3"), Str("2xlarge")), 3328>>,
      <<TypeName(Str("t3a"), Str("micro")),  94>>,
      <<TypeName(Str("t3a"), Str("small")),  188>>,
      <<TypeName(Str("t3a"), Str("medium")), 376>>,
      <<TypeName(Str("t3a"), Str("large")),  752>>,
      <<TypeName(Str("m5"), Str("large")),   960>>,
      <<TypeName(Str("m5"), Str("xlarge")),  1920>>,
      <<TypeName(Str("m5"), Str("2xlarge")), 3840>>,
      <<TypeName(Str("m5a"), Str("large")),  860>>,
      <<TypeName(Str("m5a"), Str("xlarge")), 1720>>,
      <<TypeName(Str("c5"), Str("large")),   850>>,
      <<TypeName(Str("c5"), Str("xlarge")),  1700>>,
      <<TypeName(Str("c5"), Str("2xlarge")), 3400>>,
      <<TypeName(Str("r5"), Str("large")),   1260>>,
      <<TypeName(Str("r5"), Str("xlarge")),  2520>> }

\* the hourly rate of a type the table does not list (0.10)
DefaultHourlyRate == 1000

_estimate_monthly_cost(instance_type) ==
    TableGet(hourly_pricing, instance_type, DefaultHourlyRate) * HoursPerMonth

\* the dict _get_metric_stats returns (the fields the recommenders read, and
\* the number of datapoints), for two CPU histories
LowCpu  == [datapoints |-> 24, average |-> 3, max |-> 9, min |-> 1, p95 |-> 5]
HighCpu == [datapoints |-> 24, average |-> 12, max |-> 35, min |-> 2, p95 |-> 20]

\* the dict _collect_metrics returns; the other four metrics have no datapoints
Metrics(cpu) ==
    [cpu_utilization |-> cpu, network_in |-> None, network_out |-> None,
     disk_read_bytes |-> None, disk_write_bytes |-> None]

\* a metrics dict with no cpu_utilization entry
MetricsWithoutCpu ==
    [network_in |-> None, network_out |-> None,
     disk_read_bytes |-> None, disk_write_bytes |-> None]

\* one analysis record; the instance id is given when the list is built
Analysis(region, instance_type, metrics, current_cost) ==
    [instance_id |-> 0, name |-> "N/A", region |-> region,
     instance_type |-> instance_type, metrics |-> metrics,
     current_cost |-> current_cost]

\* the lists of at most n elements of S
ListsUpTo(S, n) == UNION { [1..k -> S] : k \in 0..n }

\* instance ids are distinct: the k-th record of a list is instance k
WithIds(list) == [k \in 1..Len(list) |-> [list[k] EXCEPT !.instance_id = k]]

(***************************************************************************)
(* Inputs.                                                                 *)
(***************************************************************************)
\* config['aws']['regions'], in the order main visits them
regions == <<"us-east-1", "eu-west-1">>
Regions == { regions[k] : k \in 1..Len(regions) }

AllBudgetFamilies == {Str("m5a"), Str("c5a"), Str("r5a"), Str("t3a")}

\* config['ec2']
Ec2Configs ==
    [cpu_underutilized_threshold : {10, 20},
     min_savings_threshold : {0, 100000},
     allowed_families : {{Str("m5a")}, AllBudgetFamilies}]

\* config['reserved_instances'], the combinations the discount table covers
RiConfigs ==
    [min_utilization : {75},
     term_years : {1, 3},
     payment_option : {"all_upfront", "partial_upfront", "no_upfront"}]

\* well-formed type identifiers: smallest rung, a catalog downsize, a downsize
\* whose target the catalog lacks, a family outside the map, a size off the ladder
WellFormedTypes ==
    { TypeName(Str("t3"), Str("nano")), TypeName(Str("t3"), Str("micro")),
      TypeName(Str("m5"), Str("xlarge")), TypeName(Str("m5"), Str("large")),
      TypeName(Str("c5"), Str("large")), TypeName(Str("m5a"), Str("xlarge")),
      TypeName(Str("m5"), Str("metal")) }

\* "m5", "db.t3.micro" and "m5.xlarge.v2"
MalformedTypes ==
    { Str("m5"), <<"db", Dot, "t3", Dot, "micro">>, <<"m5", Dot, "xlarge", Dot, "v2">> }

\* current costs other than the analyzer's estimate: 0, 20 and 100 dollars
OtherCosts == {0, 200000, 1000000}

\* the analysis records EC2Recommender is exercised on
Ec2Summaries ==
    { Analysis("us-east-1", t, Metrics(LowCpu), c) :
        t \in WellFormedTypes, c \in OtherCosts }
    \cup { Analysis("us-east-1", t, Metrics(LowCpu), _estimate_monthly_cost(t)) :
        t \in WellFormedTypes \cup MalformedTypes }
    \cup { Analysis("us-east-1", TypeName(Str("m5"), Str("xlarge")), Metrics(LowCpu),
                    _estimate_monthly_cost(TypeName(Str("m5"), Str("large")))) }
    \cup { Analysis("eu-west-1", TypeName(Str("m5"), Str("xlarge")), m,
                    _estimate_monthly_cost(TypeName(Str("m5"), Str("xlarge")))) :
        m \in {Metrics(HighCpu), Metrics(None), Metrics(EmptyDict), MetricsWithoutCpu} }

\* the instances the analyzer finds in the main run
MainTypes ==
    { TypeName(Str("m5"), Str("xlarge")), TypeName(Str("t3"), Str("micro")),
      TypeName(Str("c5"), Str("large")) }

\* the configurations of the main run
MainConfigs ==
    { [ec2 |-> e, reserved_instances |-> r] :
        e \in { c \in Ec2Configs : c.cpu_underutilized_threshold = 20 }, r \in RiConfigs }

(***************************************************************************)
(* The metric statistics of the two analyzers. A float that need not be a   *)
(* whole number is kept as a fraction [num, den].                           *)
(***************************************************************************)
\* sorted(list, key=field), ascending and stable
RECURSIVE InsertAsc(_, _, _)
InsertAsc(sorted, r, field) ==
    IF sorted = <<>> THEN <<r>>
    ELSE IF r[field] < sorted[1][field] THEN <<r>> \o sorted
    ELSE <<sorted[1]>> \o InsertAsc(Tail(sorted), r, field)

RECURSIVE SortedBy(_, _)
SortedBy(list, field) ==
    IF list = <<>> THEN <<>>
    ELSE InsertAsc(SortedBy(SubSeq(list, 1, Len(list) - 1), field), list[Len(list)], field)

\* sorted(data) on a list of numbers
Sorted(data) ==
    LET boxed == SortedBy([k \in 1..Len(data) |-> [value |-> data[k]]], "value") IN
    [k \in 1..Len(data) |-> boxed[k].value]

\* max(list) and min(list) of a non-empty list of numbers
Max(list) == CHOOSE x \in { list[k] : k \in 1..Len(list) } :
                \A k \in 1..Len(list) : list[k] <= x
Min(list) == CHOOSE x \in { list[k] : k \in 1..Len(list) } :
                \A k \in 1..Len(list) : x <= list[k]

\* sum(list)
RECURSIVE Sum(_)
Sum(list) == IF list = <<>> THEN 0 ELSE list[1] + Sum(Tail(list))

\* the percentile without interpolation: the value at the lower index
_percentile_LowerValue(data, percentile) ==
    IF data = <<>> THEN [num |-> 0, den |-> 100]
    ELSE [num |-> 100 * Sorted(data)[((Len(data) - 1) * percentile) \div 100 + 1],
          den |-> 100]

\* EC2Analyzer._percentile; index is (len - 1) * percentile / 100, kept in
\* hundredths, and the lists are indexed from 0 in the code, from 1 here
_percentile(data, percentile) ==
    IF data = <<>> THEN [num |-> 0, den |-> 100]
    ELSE
      LET sorted_data == Sorted(data)
          index100    == (Len(sorted_data) - 1) * percentile
          floor_index == index100 \div 100
          ceil_index  == floor_index + 1
      IN
      IF ceil_index >= Len(sorted_data)
      THEN [num |-> 100 * sorted_data[floor_index + 1], den |-> 100]
      ELSE [num |-> 100 * sorted_data[floor_index + 1]
                      + (index100 - 100 * floor_index)
                          * (sorted_data[ceil_index + 1] - sorted_data[floor_index + 1]),
            den |-> 100]

\* RDSAnalyzer._percentile
_percentile_rds(data, percentile) ==
    IF data = <<>> THEN [num |-> 0, den |-> 100]
    ELSE
      LET sorted_data == Sorted(data)
          index100    == (Len(sorted_data) - 1) * percentile
          floor_index == index100 \div 100
          ceil_index  == floor_index + 1
      IN
      IF ceil_index >= Len(sorted_data)
      THEN [num |-> 100 * sorted_data[floor_index + 1], den |-> 100]
      ELSE [num |-> 100 * sorted_data[floor_index + 1]
                      + (index100 - 100 * floor_index)
                          * (sorted_data[ceil_index + 1] - sorted_data[floor_index + 1]),
            den |-> 100]

\* the dict _get_metric_stats returns for a response, given the analyzer's
\* percentile function applied to the averages
MetricStats(response, p95) ==
    LET datapoints == SortedBy(response, "Timestamp")
        averages   == [k \in 1..Len(datapoints) |-> datapoints[k].Average]
        maximums   == [k \in 1..Len(datapoints) |-> datapoints[k].Maximum]
    IN
    [datapoints |-> Len(datapoints),
     average |-> [num |-> Sum(averages), den |-> Len(averages)],
     max |-> Max(maximums),
     min |-> Min([k \in 1..Len(datapoints) |-> datapoints[k].Minimum]),
     p95 |-> p95,
     values |-> averages]

\* the averages of a response in the order of their timestamps
AveragesOf(response) ==
    LET datapoints == SortedBy(response, "Timestamp") IN
    [k \in 1..Len(datapoints) |-> datapoints[k].Average]

\* EC2Analyzer._get_metric_stats
_get_metric_stats(response) ==
    IF response = <<>> THEN None
    ELSE MetricStats(response,
                     _percentile(AveragesOf(response), config.analysis.cpu_percentile))

\* RDSAnalyzer._get_metric_stats
_get_metric_stats_rds(response) ==
    IF response = <<>> THEN None
    ELSE MetricStats(response,
                     _percentile_rds(AveragesOf(response), config.analysis.cpu_percentile))

\* hourly CPU averages, in percent
CpuValues == {10, 20, 30, 40}

\* the Datapoints of a get_metric_statistics response: 0 to MaxDatapoints hourly
\* datapoints, delivered in the order of their timestamps or in the reverse order
Datapoint(t, a) == [Timestamp |-> t, Average |-> a, Maximum |-> a + 5, Minimum |-> a - 5]
Responses ==
    UNION { { [k \in 1..Len(l) |-> Datapoint(k, l[k])],
              [k \in 1..Len(l) |-> Datapoint(Len(l) + 1 - k, l[Len(l) + 1 - k])] } :
            l \in ListsUpTo(CpuValues, MaxDatapoints) }

\* config['analysis']['cpu_percentile']
Percentiles == {0, 50, 90, 95, 100}

\* EC2Analyzer: the CPU statistics of one instance are collected
EC2GetMetricStats ==
    /\ pc = "metrics"
    /\ \E response \in Responses :
         analysis_results' =
           <<[analyzer |-> "ec2",
              metrics |-> [cpu_utilization |-> _get_metric_stats(response)]]>>
    /\ pc' = "metrics_done"
    /\ UNCHANGED <<config, idx, recommendations, ec2_recommendations, instance_groups,
                   ri_recommendations, savings_summary, stats>>

\* RDSAnalyzer: the CPU statistics of one database are collected
RDSGetMetricStats ==
    /\ pc = "metrics"
    /\ \E response \in Responses :
         analysis_results' =
           <<[analyzer |-> "rds",
              metrics |-> [cpu_utilization |-> _get_metric_stats_rds(response)]]>>
    /\ pc' = "metrics_done"
    /\ UNCHANGED <<config, idx, recommendations, ec2_recommendations, instance_groups,
                   ri_recommendations, savings_summary, stats>>

\* one call of _get_metric_stats for the CPU metric, by either analyzer
InitPct ==
    /\ pc = "metrics"
    /\ config \in { [analysis |-> [cpu_percentile |-> p]] : p \in Percentiles }
    /\ analysis_results = <<>>
    /\ idx = 1
    /\ recommendations = <<>>
    /\ ec2_recommendations = None
    /\ instance_groups = None
    /\ ri_recommendations = None
    /\ savings_summary = None
    /\ stats = None

NextPct == EC2GetMetricStats \/ RDSGetMetricStats

SpecPct == InitPct /\ [][NextPct]_vars

(***************************************************************************)
(* Specifications.                                                         *)
(***************************************************************************)
\* main: analyze_resources appends one record per instance with enough data,
\* region after region
Analyze ==
    /\ pc = "analyze"
    /\ Len(analysis_results) < MaxSummaries
    /\ \E r \in 1..Len(regions), t \in MainTypes, cpu \in {LowCpu, HighCpu} :
         /\ analysis_results # <<>> =>
               IndexOf(regions, analysis_results[Len(analysis_results)].region) + 1 <= r
         /\ analysis_results' =
               WithIds(Append(analysis_results,
                              Analysis(regions[r], t, Metrics(cpu),
                                       _estimate_monthly_cost(t))))
    /\ UNCHANGED <<pc, config, idx, recommendations, ec2_recommendations, instance_groups,
                   ri_recommendations, savings_summary, stats>>

\* main: nothing to analyze, return 0
NoResources ==
    /\ pc = "analyze"
    /\ analysis_results = <<>>
    /\ pc' = "exit"
    /\ UNCHANGED <<config, analysis_results, idx, recommendations, ec2_recommendations,
                   instance_groups, ri_recommendations, savings_summary, stats>>

\* main, step 2: generate_recommendations starts with the EC2 recommender
GenerateRecommendations ==
    /\ pc = "analyze"
    /\ pc' = "ec2_loop"
    /\ idx' = 1
    /\ recommendations' = <<>>
    /\ UNCHANGED <<config, analysis_results, ec2_recommendations, instance_groups,
                   ri_recommendations, savings_summary, stats>>

\* the main run
Init ==
    /\ pc = "analyze"
    /\ config \in MainConfigs
    /\ analysis_results = <<>>
    /\ idx = 1
    /\ recommendations = <<>>
    /\ ec2_recommendations = None
    /\ instance_groups = None
    /\ ri_recommendations = None
    /\ savings_summary = None
    /\ stats = None

Next ==
    \/ Analyze
    \/ NoResources
    \/ GenerateRecommendations
    \/ EC2Iterate
    \/ EC2Return
    \/ RIGroup
    \/ RIIterate
    \/ RIReturn
    \/ CalculateTotalSavings
    \/ GetSummaryStats

Spec == Init /\ [][Next]_vars

\* EC2Recommender.generate_recommendations on any list of analysis records
InitEC2 ==
    /\ pc = "ec2_loop"
    /\ config \in { [ec2 |-> e,
                      reserved_instances |->
                         [min_utilization |-> 75, term_years |-> 1,
                          payment_option |-> "all_upfront"]] : e \in Ec2Configs }
    /\ analysis_results \in { WithIds(l) : l \in ListsUpTo(Ec2Summaries, MaxSummaries) }
    /\ idx = 1
    /\ recommendations = <<>>
    /\ ec2_recommendations = None
    /\ instance_groups = None
    /\ ri_recommendations = None
    /\ savings_summary = None
    /\ stats = None

NextEC2 == EC2Iterate \/ EC2Return

SpecEC2 == InitEC2 /\ [][NextEC2]_vars

\* config['reserved_instances'] with the combinations the discount table lacks too:
\* a term of 2 years, the payment option "monthly"
RiAnyConfigs ==
    [min_utilization : {75, 100},
     term_years : {1, 2, 3},
     payment_option : {"all_upfront", "partial_upfront", "no_upfront", "monthly"}]

\* the analysis records ReservedInstanceRecommender is exercised on: two regions,
\* two types, a cost of 70 dollars at low CPU or the analyzer's estimate at high CPU
RiSummaries ==
    { Analysis(r, t, Metrics(LowCpu), 700000) :
        r \in Regions,
        t \in { TypeName(Str("m5"), Str("large")), TypeName(Str("t3"), Str("micro")) } }
    \cup { Analysis(r, t, Metrics(HighCpu), _estimate_monthly_cost(t)) :
        r \in Regions,
        t \in { TypeName(Str("m5"), Str("large")), TypeName(Str("t3"), Str("micro")) } }

\* ReservedInstanceRecommender.generate_recommendations on any list of analysis
\* records, under any configuration
InitRI ==
    /\ pc = "ec2_returned"
    /\ config \in { [ec2 |-> [cpu_underutilized_threshold |-> 20,
                               min_savings_threshold |-> 100000,
                               allowed_families |-> AllBudgetFamilies],
                      reserved_instances |-> r] : r \in RiAnyConfigs }
    /\ analysis_results \in { WithIds(l) : l \in ListsUpTo(RiSummaries, MaxRiSummaries) }
    /\ idx = 1
    /\ recommendations = <<>>
    /\ ec2_recommendations = <<>>
    /\ instance_groups = None
    /\ ri_recommendations = None
    /\ savings_summary = None
    /\ stats = None

NextRI == RIGroup \/ RIIterate \/ RIReturn

SpecRI == InitRI /\ [][NextRI]_vars

\* analysis records whose recommendations tie on the sort keys: a c5.large that
\* costs nothing (both strategies save 0) and an m5.xlarge at the analyzer's
\* estimate, in either region
GenSummaries ==
    { Analysis(r, TypeName(Str("c5"), Str("large")), Metrics(LowCpu), 0) : r \in Regions }
    \cup { Analysis(r, TypeName(Str("m5"), Str("xlarge")), Metrics(LowCpu),
                    _estimate_monthly_cost(TypeName(Str("m5"), Str("xlarge")))) :
             r \in Regions }

\* main.generate_recommendations: both recommenders, one after the other, on the
\* same list of analysis records
InitGen ==
    /\ pc = "ec2_loop"
    /\ config \in { [ec2 |-> [cpu_underutilized_threshold |-> 20,
                               min_savings_threshold |-> m,
                               allowed_families |-> AllBudgetFamilies],
                      reserved_instances |-> r] :
                      m \in {0, 100000},
                      r \in { c \in RiConfigs : c.payment_option = "all_upfront" } }
    /\ analysis_results \in { WithIds(l) : l \in ListsUpTo(GenSummaries, MaxSummaries) }
    /\ idx = 1
    /\ recommendations = <<>>
    /\ ec2_recommendations = None
    /\ instance_groups = None
    /\ ri_recommendations = None
    /\ savings_summary = None
    /\ stats = None

NextGen == EC2Iterate \/ EC2Return \/ RIGroup \/ RIIterate \/ RIReturn

SpecGen == InitGen /\ [][NextGen]_vars

\* right-sizing records as the cost optimizer reads them; the stored annual
\* savings is 12 times the monthly savings in some and not in others
AggEc2Recs ==
    { [region |-> r, strategy |-> st, monthly_savings |-> sv[1], annual_savings |-> sv[2]] :
        r \in Regions, st \in {"downsize", "family_switch"},
        sv \in { <<100000, 1200000>>, <<100000, 1000000>> } }

\* the member lists of a reserved record: 1 to MaxMembers instances
AggMembers ==
    { [k \in 1..n |-> [instance_id |-> k, name |-> "N/A"]] : n \in 1..MaxMembers }

\* reserved records as the cost optimizer reads them
AggRiRecs ==
    { [region |-> r, monthly_savings |-> sv[1], annual_savings |-> sv[2], instances |-> m] :
        r \in Regions, m \in AggMembers,
        sv \in { <<840000, 10080000>>, <<50000, 500000>> } }

\* CostOptimizer on any two lists of recommendation records
InitAgg ==
    /\ pc = "ri_returned"
    /\ config = None
    /\ analysis_results = <<>>
    /\ idx = 1
    /\ recommendations = <<>>
    /\ ec2_recommendations \in ListsUpTo(AggEc2Recs, MaxRecs)
    /\ instance_groups = None
    /\ ri_recommendations \in ListsUpTo(AggRiRecs, MaxRecs)
    /\ savings_summary = None
    /\ stats = None

NextAgg == CalculateTotalSavings \/ GetSummaryStats

SpecAgg == InitAgg /\ [][NextAgg]_vars

(***************************************************************************)
(* Properties of EC2Recommender.generate_recommendations (SpecEC2).        *)
(***************************************************************************)
\* generate_recommendations has returned its list
Ec2Returned == pc = "ec2_returned"

\* the returned recommendations of instance k, by strategy tag
RecsFor(k) ==
    { j \in 1..Len(ec2_recommendations) : ec2_recommendations[j].instance_id = k }
RecsWith(k, strategy) ==
    { j \in RecsFor(k) : ec2_recommendations[j].strategy = strategy }

\* the CPU series of input k, when it has one
HasCpu(k) ==
    /\ "cpu_utilization" \in DOMAIN analysis_results[k].metrics
    /\ "p95" \in DOMAIN analysis_results[k].metrics.cpu_utilization
P95(k) == analysis_results[k].metrics.cpu_utilization.p95

\* the ladder and the premium-to-budget map as the specification states them
SpecLadder ==
    <<"nano", "micro", "small", "medium", "large", "xlarge", "2xlarge", "4xlarge", "8xlarge">>
SpecBudgetOf == [f \in {"m5", "c5", "r5", "t3"} |->
                   CASE f = "m5" -> "m5a" [] f = "c5" -> "c5a"
                     [] f = "r5" -> "r5a" [] f = "t3" -> "t3a"]

\* C1: a summary whose CPU p95 is greater than or equal to
\* cpu_underutilized_threshold gets no recommendation, downsize or family_switch,
\* in the returned list, whatever the other summaries are.
C1_NoRecommendationAtOrAboveThreshold ==
    Ec2Returned =>
        \A k \in 1..Len(analysis_results) :
            (HasCpu(k) /\ P95(k) >= config.ec2.cpu_underutilized_threshold)
                => RecsFor(k) = {}

\* C1 witness: a returned list holding a recommendation of one instance while
\* another instance, of a type that can be downsized and switched, sits exactly
\* at the threshold.
C1_Witness ==
    /\ Ec2Returned
    /\ Len(ec2_recommendations) > 0
    /\ \E k \in 1..Len(analysis_results) :
          /\ HasCpu(k)
          /\ P95(k) = config.ec2.cpu_underutilized_threshold
          /\ analysis_results[k].instance_type = TypeName(Str("m5"), Str("xlarge"))
          /\ analysis_results[k].current_cost > 10 * config.ec2.min_savings_threshold

IsType(k, family, size) ==
    analysis_results[k].instance_type = <<family, Dot, size>>
Eligible(k) ==
    HasCpu(k) /\ P95(k) < config.ec2.cpu_underutilized_threshold

C3_NoZeroOrNegativeSavings ==
    (Ec2Returned /\ config.ec2.min_savings_threshold >= 0) =>
        \A j \in 1..Len(ec2_recommendations) :
            LET r == ec2_recommendations[j] IN
            r.current_monthly_cost > 0 =>
                /\ r.monthly_savings > 0
                /\ r.monthly_savings = r.current_monthly_cost - r.recommended_monthly_cost

\* the parts of a type identifier of the form family.size, as single tokens
FamilyOf(type) == type[1]
SizeOf(type) == type[3]
WellFormed(type) == Len(type) = 3 /\ type[2] = Dot /\ type[1] # Dot /\ type[3] # Dot

\* C8: every returned downsize recommendation names the family of the current
\* type and the size one rung below the current size on the ladder
\* nano < micro < small < medium < large < xlarge < 2xlarge < 4xlarge < 8xlarge;
\* the current type is the input's, and m5.xlarge gives m5.large.
C8_DownsizeOneRungSameFamily ==
    Ec2Returned =>
        \A j \in 1..Len(ec2_recommendations) :
            LET r == ec2_recommendations[j] IN
            r.strategy = "downsize" =>
                /\ r.current_type = analysis_results[r.instance_id].instance_type
                /\ WellFormed(r.current_type)
                /\ WellFormed(r.recommended_type)
                /\ FamilyOf(r.recommended_type) = FamilyOf(r.current_type)
                /\ \E i \in 2..Len(SpecLadder) :
                      /\ SizeOf(r.current_type) = SpecLadder[i]
                      /\ SizeOf(r.recommended_type) = SpecLadder[i - 1]
                /\ r.current_type = <<"m5", Dot, "xlarge">>
                      => r.recommended_type = <<"m5", Dot, "large">>

\* C8 witness: downsize recommendations from m5.xlarge to m5.large and from
\* t3.micro to t3.nano are returned together.
C8_Witness ==
    /\ Ec2Returned
    /\ \E i, j \in 1..Len(ec2_recommendations) :
          /\ ec2_recommendations[i].strategy = "downsize"
          /\ ec2_recommendations[i].current_type = <<"m5", Dot, "xlarge">>
          /\ ec2_recommendations[i].recommended_type = <<"m5", Dot, "large">>
          /\ ec2_recommendations[j].strategy = "downsize"
          /\ ec2_recommendations[j].current_type = <<"t3", Dot, "micro">>
          /\ ec2_recommendations[j].recommended_type = <<"t3", Dot, "nano">>

\* C9: an instance whose size is nano, the smallest rung, gets no downsize
\* recommendation, whatever its utilization, cost and the configuration.
C9_SmallestRungNeverDownsized ==
    Ec2Returned =>
        \A k \in 1..Len(analysis_results) :
            (WellFormed(analysis_results[k].instance_type)
               /\ SizeOf(analysis_results[k].instance_type) = "nano")
                => RecsWith(k, "downsize") = {}

\* C9 witness: an eligible t3.nano that costs 100 dollars was evaluated (it got
\* its family_switch) and got no downsize.
C9_Witness ==
    /\ Ec2Returned
    /\ \E k \in 1..Len(analysis_results) :
          /\ IsType(k, "t3", "nano")
          /\ Eligible(k)
          /\ analysis_results[k].current_cost = 1000000
          /\ RecsWith(k, "family_switch") # {}
          /\ RecsWith(k, "downsize") = {}

\* C10: a family_switch recommendation is returned only when the current family
\* is a key of the map m5 -> m5a, c5 -> c5a, r5 -> r5a, t3 -> t3a and the mapped
\* budget family is in allowed_families; the recommended type is the budget
\* family with the current size; with allowed_families = {m5a} a c5.large
\* instance gets no family_switch.
C10_FamilySwitchOnlyIfAllowed ==
    Ec2Returned =>
        /\ \A j \in 1..Len(ec2_recommendations) :
              LET r == ec2_recommendations[j] IN
              r.strategy = "family_switch" =>
                  /\ r.current_type = analysis_results[r.instance_id].instance_type
                  /\ WellFormed(r.current_type)
                  /\ FamilyOf(r.current_type) \in DOMAIN SpecBudgetOf
                  /\ Str(SpecBudgetOf[FamilyOf(r.current_type)])
                        \in config.ec2.allowed_families
                  /\ r.recommended_type =
                        <<SpecBudgetOf[FamilyOf(r.current_type)], Dot, SizeOf(r.current_type)>>
        /\ config.ec2.allowed_families = {Str("m5a")} =>
              \A k \in 1..Len(analysis_results) :
                  IsType(k, "c5", "large") => RecsWith(k, "family_switch") = {}

\* C10 witness: with allowed_families = {m5a} an eligible c5.large that costs
\* 100 dollars gets no family_switch while an m5 instance gets one.
C10_Witness ==
    /\ Ec2Returned
    /\ config.ec2.allowed_families = {Str("m5a")}
    /\ \E k \in 1..Len(analysis_results) :
          /\ IsType(k, "c5", "large")
          /\ Eligible(k)
          /\ analysis_results[k].current_cost = 1000000
          /\ RecsWith(k, "family_switch") = {}
    /\ \E j \in 1..Len(ec2_recommendations) :
          /\ ec2_recommendations[j].strategy = "family_switch"
          /\ FamilyOf(ec2_recommendations[j].current_type) = "m5"

(***************************************************************************)
(* Properties of CostOptimizer (SpecAgg) and of the main run (Spec).       *)
(***************************************************************************)
\* calculate_total_savings has returned
SavingsReturned == pc \in {"savings_done", "done"}

\* the sum of the stored values of a field over a list of records
RECURSIVE StoredSum(_, _)
StoredSum(list, field) ==
    IF Len(list) = 0 THEN 0
    ELSE StoredSum(SubSeq(list, 1, Len(list) - 1), field) + list[Len(list)][field]

Reversed(list) == [k \in 1..Len(list) |-> list[Len(list) + 1 - k]]

\* the instances that are the subject of a returned right-sizing recommendation
\* with positive savings and a member of a returned reserved recommendation
\* with positive savings
CountedTwice ==
    { k \in 1..Len(analysis_results) :
        /\ \E j \in 1..Len(ec2_recommendations) :
              /\ ec2_recommendations[j].instance_id = k
              /\ ec2_recommendations[j].monthly_savings > 0
        /\ \E g \in 1..Len(ri_recommendations) :
              /\ ri_recommendations[g].monthly_savings > 0
              /\ \E m \in 1..Len(ri_recommendations[g].instances) :
                    ri_recommendations[g].instances[m].instance_id = k }

\* C4: the totals are non-overlapping: when an instance is the subject of a
\* right-sizing recommendation and a member of a reserved recommendation of the
\* same pass, total.monthly_savings and total.annual_savings do not hold that
\* instance's savings at both levels, so they are less than the plain sums of
\* the two lists.
C4_TotalsDoNotOverlap ==
    (SavingsReturned /\ CountedTwice # {}) =>
        /\ savings_summary.total.monthly_savings
              < StoredSum(ec2_recommendations, "monthly_savings")
                  + StoredSum(ri_recommendations, "monthly_savings")
        /\ savings_summary.total.annual_savings
              < StoredSum(ec2_recommendations, "annual_savings")
                  + StoredSum(ri_recommendations, "annual_savings")

\* C5: total.annual_savings is the sum of the stored annual_savings of the
\* right-sizing list plus the sum of the stored annual_savings of the reserved
\* list, and the same with either list in another order.
C5_AnnualIsSumOfStoredFields ==
    SavingsReturned =>
        /\ savings_summary.total.annual_savings
              = StoredSum(ec2_recommendations, "annual_savings")
                  + StoredSum(ri_recommendations, "annual_savings")
        /\ calculate_total_savings(Reversed(ec2_recommendations),
                                   Reversed(ri_recommendations)).total.annual_savings
              = savings_summary.total.annual_savings

\* C6: ec2_rightsizing.monthly_savings is the sum of the right-sizing
\* monthly_savings, reserved_instances.monthly_savings the sum of the reserved
\* monthly_savings, total.monthly_savings the sum of the two; with both lists
\* empty every total is zero.
C6_MonthlyTotalsAreSums ==
    SavingsReturned =>
        /\ savings_summary.ec2_rightsizing.monthly_savings
              = StoredSum(ec2_recommendations, "monthly_savings")
        /\ savings_summary.reserved_instances.monthly_savings
              = StoredSum(ri_recommendations, "monthly_savings")
        /\ savings_summary.total.monthly_savings
              = StoredSum(ec2_recommendations, "monthly_savings")
                  + StoredSum(ri_recommendations, "monthly_savings")
        /\ (ec2_recommendations = <<>> /\ ri_recommendations = <<>>) =>
              /\ savings_summary.ec2_rightsizing.monthly_savings = 0
              /\ savings_summary.ec2_rightsizing.annual_savings = 0
              /\ savings_summary.reserved_instances.monthly_savings = 0
              /\ savings_summary.reserved_instances.annual_savings = 0
              /\ savings_summary.total.monthly_savings = 0
              /\ savings_summary.total.annual_savings = 0

\* C6 witness: the totals of two right-sizing and two reserved records whose
\* savings differ have been computed.
C6_Witness ==
    /\ pc = "savings_done"
    /\ Len(ec2_recommendations) = 2
    /\ Len(ri_recommendations) = 2
    /\ ri_recommendations[1].monthly_savings # ri_recommendations[2].monthly_savings
    /\ savings_summary.total.monthly_savings > 0

\* get_summary_stats has returned
StatsReturned == pc = "done"

\* the by_region count of a region, 0 for a region that is no key
ByRegion(r) == IF r \in DOMAIN stats.by_region THEN stats.by_region[r] ELSE 0

\* the number of member instances of the reserved recommendations of a region
RECURSIVE MembersIn(_, _)
MembersIn(list, r) ==
    IF Len(list) = 0 THEN 0
    ELSE MembersIn(SubSeq(list, 1, Len(list) - 1), r)
           + (IF list[Len(list)].region = r THEN Len(list[Len(list)].instances) ELSE 0)

\* C7: for every region r, by_region[r] is the number of right-sizing
\* recommendations of region r plus the number of member instances of the
\* reserved recommendations of region r; a region is a key exactly when one of
\* the two lists names it.
C7_RegionCountsMembers ==
    StatsReturned =>
        /\ \A r \in Regions :
              ByRegion(r) =
                  Cardinality({ j \in 1..Len(ec2_recommendations) :
                                   ec2_recommendations[j].region = r })
                    + MembersIn(ri_recommendations, r)
        /\ DOMAIN stats.by_region =
              { ec2_recommendations[j].region : j \in 1..Len(ec2_recommendations) }
                \cup { ri_recommendations[g].region : g \in 1..Len(ri_recommendations) }

\* C7 witness: one reserved recommendation of two members is the only record
\* of its region, and the region counts 2.
C7_Witness ==
    /\ StatsReturned
    /\ \E r \in Regions :
          /\ Cardinality({ g \in 1..Len(ri_recommendations) :
                             ri_recommendations[g].region = r }) = 1
          /\ \A j \in 1..Len(ec2_recommendations) : ec2_recommendations[j].region # r
          /\ \E g \in 1..Len(ri_recommendations) :
                /\ ri_recommendations[g].region = r
                /\ Len(ri_recommendations[g].instances) = 2
          /\ ByRegion(r) = 2

(***************************************************************************)
(* Claims about ReservedInstanceRecommender.                               *)
(***************************************************************************)
RiReturned == pc = "ri_returned"

\* the places <<record, member>> where input k is listed in the returned records
MemberSlots(k) ==
    UNION { { <<g, m>> : m \in { n \in 1..Len(ri_recommendations[g].instances) :
                                   ri_recommendations[g].instances[n].instance_id = k } } :
            g \in 1..Len(ri_recommendations) }

\* the (region, instance_type) pair of a record
PairOf(r) == <<r.region, r.instance_type>>

\* C11: the reserved-instance recommender returns exactly one record per distinct
\* (region, instance_type) pair of the input; the member lists partition the
\* input (every input is listed exactly once, in the record of its own pair),
\* instance_count is the length of the member list, and this holds whatever the
\* members' CPU figures and the configured min_utilization are.
C11_OneRecommendationPerGroup ==
    RiReturned =>
      /\ \A k \in 1..Len(analysis_results) :
           /\ Cardinality(MemberSlots(k)) = 1
           /\ \A gm \in MemberSlots(k) :
                PairOf(ri_recommendations[gm[1]]) = PairOf(analysis_results[k])
      /\ \A g \in 1..Len(ri_recommendations) :
           /\ ri_recommendations[g].instance_count = Len(ri_recommendations[g].instances)
           /\ \A m \in 1..Len(ri_recommendations[g].instances) :
                ri_recommendations[g].instances[m].instance_id \in 1..Len(analysis_results)
      /\ \A g, h \in 1..Len(ri_recommendations) :
           g # h => PairOf(ri_recommendations[g]) # PairOf(ri_recommendations[h])
      /\ { PairOf(ri_recommendations[g]) : g \in 1..Len(ri_recommendations) }
           = { PairOf(analysis_results[k]) : k \in 1..Len(analysis_results) }

\* three inputs in two groups, one of two members and one of a single member
\* with a p95 CPU of 20, under min_utilization 100
C11_Witness ==
    /\ RiReturned
    /\ config.reserved_instances.min_utilization = 100
    /\ Len(analysis_results) = 3
    /\ Len(ri_recommendations) = 2
    /\ \E g \in 1..2 : ri_recommendations[g].instance_count = 2
    /\ \E g \in 1..2 :
         /\ ri_recommendations[g].instance_count = 1
         /\ P95(ri_recommendations[g].instances[1].instance_id) = 20

\* the discount table as the specification states it, in hundredths
SpecRate ==
    [t \in {1, 3} |->
       [o \in {"all_upfront", "partial_upfront", "no_upfront"} |->
          IF t = 1 THEN (IF o = "all_upfront" THEN 40
                         ELSE IF o = "partial_upfront" THEN 35 ELSE 30)
          ELSE (IF o = "all_upfront" THEN 60
                ELSE IF o = "partial_upfront" THEN 55 ELSE 50)]]

\* the configured combination is one the table has
Covered ==
    /\ config.reserved_instances.term_years \in {1, 3}
    /\ config.reserved_instances.payment_option
         \in {"all_upfront", "partial_upfront", "no_upfront"}

ConfiguredRate ==
    SpecRate[config.reserved_instances.term_years][config.reserved_instances.payment_option]

\* the sum of the current costs of the inputs a record lists
RECURSIVE MembersCost(_)
MembersCost(members) ==
    IF members = <<>> THEN 0
    ELSE analysis_results[members[1].instance_id].current_cost + MembersCost(Tail(members))

\* C12 as stated: over the fields of every returned record,
\* ri_monthly_cost = current_monthly_cost * (1 - discount_rate), the record's
\* discount_rate being the table entry of the configured term and payment option
\* and current_monthly_cost the sum of the members' current costs.
C12_DiscountOverStoredFields ==
    RiReturned =>
      \A g \in 1..Len(ri_recommendations) :
        LET r == ri_recommendations[g] IN
        /\ r.current_monthly_cost = MembersCost(r.instances)
        /\ r.ri_monthly_cost = r.current_monthly_cost * (1 - r.discount_rate)

\* C12, amended: the record's discount_rate field is the table entry times 100
\* (40 for the entry 0.40), and ri_monthly_cost = current_monthly_cost *
\* (1 - discount_rate / 100), current_monthly_cost being the sum of the members'
\* current costs.
C12_DiscountOverStoredPercent ==
    RiReturned =>
      \A g \in 1..Len(ri_recommendations) :
        LET r == ri_recommendations[g] IN
        /\ Covered
        /\ r.discount_rate = ConfiguredRate
        /\ r.current_monthly_cost = MembersCost(r.instances)
        /\ r.ri_monthly_cost * 100 = r.current_monthly_cost * (100 - r.discount_rate)

\* a record of two members under the 3-year partial_upfront rate
C12_Witness ==
    /\ RiReturned
    /\ config.reserved_instances.term_years = 3
    /\ config.reserved_instances.payment_option = "partial_upfront"
    /\ \E g \in 1..Len(ri_recommendations) :
         /\ ri_recommendations[g].instance_count = 2
         /\ ri_recommendations[g].discount_rate = 55
         /\ ri_recommendations[g].ri_monthly_cost > 0

\* the record of the example: three m5.large in us-east-1 costing 70 dollars each,
\* under term 1 and all_upfront
ThreeTimesSeventy(r) ==
    /\ r.term_years = 1
    /\ r.payment_option = "all_upfront"
    /\ r.region = "us-east-1"
    /\ r.instance_type = <<"m5", ".", "large">>
    /\ r.instance_count = 3
    /\ \A m \in 1..3 : analysis_results[r.instances[m].instance_id].current_cost = 700000

\* C13: monthly_savings = current_monthly_cost - ri_monthly_cost, annual_savings
\* = 12 * monthly_savings, total_savings_over_term = annual_savings * term_years;
\* three m5.large in us-east-1 costing 70 each under term 1, all_upfront give the
\* aggregate 210, ri_monthly_cost 126, monthly_savings 84, annual_savings 1008.
C13_SavingsDerivedBySubtraction ==
    RiReturned =>
      \A g \in 1..Len(ri_recommendations) :
        LET r == ri_recommendations[g] IN
        /\ r.monthly_savings = r.current_monthly_cost - r.ri_monthly_cost
        /\ r.annual_savings = 12 * r.monthly_savings
        /\ r.total_savings_over_term = r.annual_savings * r.term_years
        /\ r.term_years = config.reserved_instances.term_years
        /\ ThreeTimesSeventy(r)
           => /\ r.current_monthly_cost = 2100000
              /\ r.ri_monthly_cost = 1260000
              /\ r.monthly_savings = 840000
              /\ r.annual_savings = 10080000

C13_Witness ==
    /\ RiReturned
    /\ Len(ri_recommendations) = 1
    /\ ThreeTimesSeventy(ri_recommendations[1])
    /\ ri_recommendations[1].annual_savings = 10080000

\* x * (1 - rate / 100) computed on the hundreds and the remainder of x, which
\* is defined only where the product is a whole number
Discounted(x, rate) ==
    (x \div 100) * (100 - rate) + ((x % 100) * (100 - rate)) \div 100
Whole(x, rate) == ((x % 100) * (100 - rate)) % 100 = 0

\* C14: upfront_payment is the full discounted term cost, aggregate monthly cost
\* * 12 * term_years * (1 - discount_rate), under all_upfront, exactly half of it
\* under partial_upfront and zero under no_upfront; 1512 in the 3 x 70 example.
C14_UpfrontPayment ==
    RiReturned =>
      \A g \in 1..Len(ri_recommendations) :
        LET r    == ri_recommendations[g]
            term == r.current_monthly_cost * 12 * r.term_years
        IN
        /\ Covered
        /\ r.payment_option = config.reserved_instances.payment_option
        /\ Whole(term, ConfiguredRate)
        /\ r.payment_option = "all_upfront" =>
             r.upfront_payment = Discounted(term, ConfiguredRate)
        /\ r.payment_option = "partial_upfront" =>
             r.upfront_payment * 2 = Discounted(term, ConfiguredRate)
        /\ r.payment_option = "no_upfront" => r.upfront_payment = 0
        /\ ThreeTimesSeventy(r) => r.upfront_payment = 15120000

\* a record paid half upfront
C14_Witness ==
    /\ RiReturned
    /\ config.reserved_instances.payment_option = "partial_upfront"
    /\ \E g \in 1..Len(ri_recommendations) :
         /\ ri_recommendations[g].upfront_payment > 0
         /\ ri_recommendations[g].upfront_payment * 2
              = ri_recommendations[g].ri_monthly_cost * 12
                  * ri_recommendations[g].term_years

\* C15 as stated: under a (term_years, payment_option) combination the discount
\* table lacks, the recommender ends in a fatal error whatever the input
\* summaries are; it never returns.
C15_FatalErrorForAnyInput ==
    ~Covered => ~RiReturned

\* C15, the part the code keeps: under a combination the table lacks, the
\* recommender raises KeyError on the first group of a non-empty input, before
\* any record is built, and returns nothing; it returns only for an empty input,
\* and then the empty list. No record is ever built from a defaulted rate.
C15_FatalErrorForNonEmptyInput ==
    ~Covered =>
      /\ recommendations = <<>>
      /\ RiReturned => (analysis_results = <<>> /\ ri_recommendations = <<>>)
      /\ (pc = "ri_loop" /\ analysis_results # <<>>) => idx = 1
      /\ pc = "KeyError" => (analysis_results # <<>> /\ ri_recommendations = None)

\* the error raised for two inputs under a term of 2 years
C15_Witness ==
    /\ pc = "KeyError"
    /\ config.reserved_instances.term_years = 2
    /\ config.reserved_instances.payment_option = "all_upfront"
    /\ Len(analysis_results) = 2

(***************************************************************************)
(* Claims about the inputs EC2Recommender skips and the order of its       *)
(* output.                                                                 *)
(***************************************************************************)
\* input k has no CPU series: the entry is absent, None or empty
CpuAbsent(k) == "cpu_utilization" \notin DOMAIN analysis_results[k].metrics
CpuNoneOrEmpty(k) ==
    /\ ~CpuAbsent(k)
    /\ analysis_results[k].metrics.cpu_utilization \in {None, EmptyDict}
LacksCpu(k) == CpuAbsent(k) \/ CpuNoneOrEmpty(k)

\* C16 as stated: a summary whose cpu_utilization entry is absent, None or empty
\* is skipped silently: no exception is raised, the summary gets no
\* recommendation, and the other summaries of the input get theirs.
C16_MissingCpuSkippedSilently ==
    /\ pc # "KeyError"
    /\ Ec2Returned =>
         \A k \in 1..Len(analysis_results) :
           IF LacksCpu(k) THEN RecsFor(k) = {}
           ELSE Cardinality(RecsFor(k)) = Len(RecsOfAnalysis(analysis_results[k]))

\* C16, the part the code keeps: a None or empty entry is skipped without an
\* exception and the other summaries get their recommendations; the exception
\* is raised exactly at a summary whose metrics have no cpu_utilization entry.
C16_NoneOrEmptySkippedSilently ==
    /\ pc = "KeyError" => (idx \in 1..Len(analysis_results) /\ CpuAbsent(idx))
    /\ Ec2Returned =>
         \A k \in 1..Len(analysis_results) :
           /\ ~CpuAbsent(k)
           /\ IF LacksCpu(k) THEN RecsFor(k) = {}
              ELSE Cardinality(RecsFor(k)) = Len(RecsOfAnalysis(analysis_results[k]))

\* a summary with a None entry skipped next to one that gets a recommendation
C16_Witness ==
    /\ Ec2Returned
    /\ Len(analysis_results) = 2
    /\ CpuNoneOrEmpty(1)
    /\ analysis_results[1].metrics.cpu_utilization = None
    /\ RecsFor(1) = {}
    /\ RecsFor(2) # {}

\* every record the recommender computes for input k alone is in the output,
\* and the output has no other record of k
GetsItsOwn(k) ==
    /\ Cardinality(RecsFor(k)) = Len(RecsOfAnalysis(analysis_results[k]))
    /\ \A n \in 1..Len(RecsOfAnalysis(analysis_results[k])) :
         \E j \in RecsFor(k) :
           ec2_recommendations[j] = RecsOfAnalysis(analysis_results[k])[n]

\* C17: an eligible resource whose type is not exactly two dot-separated
\* segments ('m5', 'db.t3.micro') gets neither a downsize nor a family_switch
\* recommendation and raises nothing; the other resources get what they get
\* without it.
C17_MalformedTypeGetsNothing ==
    /\ pc = "KeyError" => CpuAbsent(idx)
    /\ Ec2Returned =>
         \A k \in 1..Len(analysis_results) :
           IF Eligible(k) /\ ~WellFormed(analysis_results[k].instance_type)
           THEN RecsFor(k) = {}
           ELSE GetsItsOwn(k)

\* 'm5.xlarge.v2' ahead of an m5.xlarge that gets both its recommendations
C17_Witness ==
    /\ Ec2Returned
    /\ Len(analysis_results) = 2
    /\ Eligible(1)
    /\ analysis_results[1].instance_type = <<"m5", ".", "xlarge", ".", "v2">>
    /\ RecsFor(1) = {}
    /\ WellFormed(analysis_results[2].instance_type)
    /\ Cardinality(RecsFor(2)) = 2

\* C18: the list EC2Recommender returns is in non-increasing order of
\* monthly_savings, pair by adjacent pair, whatever the order of the input.
C18_SortedByMonthlySavings ==
    Ec2Returned =>
      \A j \in 1..(Len(ec2_recommendations) - 1) :
        ec2_recommendations[j].monthly_savings
          >= ec2_recommendations[j + 1].monthly_savings

\* the smaller saving was computed first and is returned last
C18_Witness ==
    /\ Ec2Returned
    /\ Len(ec2_recommendations) >= 2
    /\ recommendations[1].monthly_savings < recommendations[2].monthly_savings
    /\ ec2_recommendations[1].monthly_savings
         > ec2_recommendations[Len(ec2_recommendations)].monthly_savings

\* C19: the list ReservedInstanceRecommender returns is in non-increasing order
\* of annual_savings, pair by adjacent pair, whatever the order of the input.
C19_SortedByAnnualSavings ==
    RiReturned =>
      \A g \in 1..(Len(ri_recommendations) - 1) :
        ri_recommendations[g].annual_savings >= ri_recommendations[g + 1].annual_savings

\* the group of the smaller saving came first in the input and is returned last
C19_Witness ==
    /\ RiReturned
    /\ Len(ri_recommendations) >= 2
    /\ recommendations[1].annual_savings < recommendations[2].annual_savings
    /\ ri_recommendations[1].annual_savings
         > ri_recommendations[Len(ri_recommendations)].annual_savings

(***************************************************************************)
(* The order of records with equal sort keys.                              *)
(***************************************************************************)
\* the first input a reserved record lists
FirstMember(r) ==
    CHOOSE k \in { r.instances[m].instance_id : m \in 1..Len(r.instances) } :
      \A m \in 1..Len(r.instances) : k <= r.instances[m].instance_id

\* record a precedes record b: by the larger saving, and at equal savings by the
\* input order of the resources and downsize before family_switch
Ec2Before(a, b) ==
    \/ a.monthly_savings > b.monthly_savings
    \/ /\ a.monthly_savings = b.monthly_savings
       /\ \/ a.instance_id < b.instance_id
          \/ /\ a.instance_id = b.instance_id
             /\ a.strategy = "downsize"
             /\ b.strategy = "family_switch"

\* record a precedes record b: by the larger annual saving, and at equal savings
\* by the first occurrence of their groups in the input
RiBefore(a, b) ==
    \/ a.annual_savings > b.annual_savings
    \/ /\ a.annual_savings = b.annual_savings
       /\ FirstMember(a) < FirstMember(b)

\* C20: the order of either output list is a function of the input sequence and
\* the configuration alone, so that two runs give the same list in the same
\* order: the records are ordered by their sort key, and records of equal key
\* by the input order (input order of the resources, downsize before
\* family_switch for one resource, first occurrence of the groups).
C20_OrderDeterminedByInput ==
    /\ pc \in {"ec2_returned", "ri_loop", "ri_returned"} =>
         \A i, j \in 1..Len(ec2_recommendations) :
           i < j => Ec2Before(ec2_recommendations[i], ec2_recommendations[j])
    /\ Ec2Returned =>
         /\ Len(ec2_recommendations) = Len(recommendations)
         /\ \A i, j \in 1..Len(recommendations) :
              i < j =>
                \/ recommendations[i].instance_id < recommendations[j].instance_id
                \/ /\ recommendations[i].instance_id = recommendations[j].instance_id
                   /\ recommendations[i].strategy = "downsize"
                   /\ recommendations[j].strategy = "family_switch"
    /\ RiReturned =>
         /\ Len(ri_recommendations) = Len(recommendations)
         /\ \A g, h \in 1..Len(ri_recommendations) :
              g < h => RiBefore(ri_recommendations[g], ri_recommendations[h])

\* four right-sizing records of equal savings, two per resource, and two reserved
\* records of equal annual savings
C20_Witness ==
    /\ RiReturned
    /\ Len(ec2_recommendations) = 4
    /\ \A j \in 1..4 :
         ec2_recommendations[j].monthly_savings = ec2_recommendations[1].monthly_savings
    /\ ec2_recommendations[1].instance_id = ec2_recommendations[2].instance_id
    /\ ec2_recommendations[3].instance_id = 2
    /\ Len(ri_recommendations) = 2
    /\ ri_recommendations[1].annual_savings = ri_recommendations[2].annual_savings
    /\ FirstMember(ri_recommendations[1]) = 1

(***************************************************************************)
(* The cost of a downsize and the independence of the two strategies.      *)
(***************************************************************************)
\* input k is a downsize candidate from rung i of the ladder: eligible, of a
\* well-formed type whose size is rung i, with a rung below it
CandidateAt(k, i) ==
    /\ Eligible(k)
    /\ WellFormed(analysis_results[k].instance_type)
    /\ i \in 2..Len(SpecLadder)
    /\ SizeOf(analysis_results[k].instance_type) = SpecLadder[i]

\* the catalog prices of a type: one price, or none
CatalogPrices(type) == { e[2] : e \in { c \in pricing : c[1] = type } }

\* the cost the claim gives the downsize of input k from rung i
ClaimedDownsizeCosts(k, i) ==
    LET target == <<FamilyOf(analysis_results[k].instance_type), Dot, SpecLadder[i - 1]>> IN
    IF CatalogPrices(target) # {} THEN CatalogPrices(target)
    ELSE IF analysis_results[k].current_cost % 2 = 0
         THEN { analysis_results[k].current_cost \div 2 }
         ELSE {}

\* C21: the recommended cost of a downsize candidate is the catalog price of the
\* recommended type where the catalog has one, and exactly half the current cost
\* where it has none; the fallback raises nothing; and the candidate is emitted
\* exactly when current cost minus that cost is at least min_savings_threshold.
C21_DownsizeCostAndEmission ==
    /\ pc = "KeyError" => CpuAbsent(idx)
    /\ Ec2Returned =>
         \A k \in 1..Len(analysis_results) : \A i \in 2..Len(SpecLadder) :
           CandidateAt(k, i) =>
             /\ Cardinality(ClaimedDownsizeCosts(k, i)) = 1
             /\ \A c \in ClaimedDownsizeCosts(k, i) :
                  /\ RecsWith(k, "downsize") # {}
                       <=> analysis_results[k].current_cost - c
                             >= config.ec2.min_savings_threshold
                  /\ \A j \in RecsWith(k, "downsize") :
                       /\ ec2_recommendations[j].recommended_monthly_cost = c
                       /\ ec2_recommendations[j].monthly_savings
                            = analysis_results[k].current_cost - c

\* a downsize at the catalog price of m5.large next to one at half the current
\* cost (m5.medium has no price), under a positive threshold
C21_Witness ==
    /\ Ec2Returned
    /\ config.ec2.min_savings_threshold = 100000
    /\ \E i, j \in 1..Len(ec2_recommendations) :
         /\ ec2_recommendations[i].strategy = "downsize"
         /\ ec2_recommendations[i].recommended_type = <<"m5", Dot, "large">>
         /\ ec2_recommendations[i].recommended_monthly_cost = 960 * 730
         /\ ec2_recommendations[j].strategy = "downsize"
         /\ ec2_recommendations[j].recommended_type = <<"m5", Dot, "medium">>
         /\ ec2_recommendations[j].current_monthly_cost = 200000
         /\ ec2_recommendations[j].recommended_monthly_cost = 100000

\* the family switch of input k as the specification gives it: the family is a
\* premium one, its budget family is allowed, and a tenth of the current cost is
\* at least the threshold
SwitchDue(k) ==
    LET family == FamilyOf(analysis_results[k].instance_type) IN
    /\ family \in DOMAIN SpecBudgetOf
    /\ <<SpecBudgetOf[family]>> \in config.ec2.allowed_families
    /\ analysis_results[k].current_cost >= 10 * config.ec2.min_savings_threshold

\* C22: for an eligible resource of a well-formed type the two strategies are
\* independent: a family_switch is emitted by its own conditions alone, whether
\* or not a downsize is emitted (also from the smallest rung and from a size off
\* the ladder), so two resources of one family and one cost agree on it whatever
\* their sizes; and a resource gets at most one recommendation per strategy,
\* hence at most two.
C22_StrategiesIndependent ==
    Ec2Returned =>
      \A k \in 1..Len(analysis_results) :
        (Eligible(k) /\ WellFormed(analysis_results[k].instance_type)) =>
          /\ RecsWith(k, "family_switch") # {} <=> SwitchDue(k)
          /\ Cardinality(RecsWith(k, "downsize")) <= 1
          /\ Cardinality(RecsWith(k, "family_switch")) <= 1
          /\ RecsFor(k) = RecsWith(k, "downsize") \cup RecsWith(k, "family_switch")
          /\ Cardinality(RecsFor(k)) <= 2
          /\ \A n \in 1..Len(analysis_results) :
               ( /\ Eligible(n)
                 /\ WellFormed(analysis_results[n].instance_type)
                 /\ FamilyOf(analysis_results[n].instance_type)
                      = FamilyOf(analysis_results[k].instance_type)
                 /\ analysis_results[n].current_cost = analysis_results[k].current_cost )
               => ( RecsWith(n, "family_switch") # {}
                      <=> RecsWith(k, "family_switch") # {} )

\* two m5 resources of one cost, a family_switch for each: the xlarge with its
\* downsize, the metal (off the ladder) without one
C22_Witness ==
    /\ Ec2Returned
    /\ Len(analysis_results) = 2
    /\ IsType(1, "m5", "xlarge")
    /\ IsType(2, "m5", "metal")
    /\ analysis_results[1].current_cost = analysis_results[2].current_cost
    /\ Cardinality(RecsWith(1, "downsize")) = 1
    /\ Cardinality(RecsWith(1, "family_switch")) = 1
    /\ RecsWith(2, "downsize") = {}
    /\ Cardinality(RecsWith(2, "family_switch")) = 1

(***************************************************************************)
(* The percentile of the analyzers.                                        *)
(***************************************************************************)
\* the statistics were computed from at least one datapoint
StatsComputed ==
    /\ pc = "metrics_done"
    /\ analysis_results[1].metrics.cpu_utilization # None

\* how often x occurs in a list
Occurrences(list, x) == Cardinality({ k \in 1..Len(list) : list[k] = x })

\* the values of a list in ascending order: the arrangement of the same values
\* in which no value is followed by a smaller one
Ascending(list) ==
    CHOOSE v \in [1..Len(list) -> { list[k] : k \in 1..Len(list) }] :
      /\ \A k \in 1..(Len(list) - 1) : v[k] <= v[k + 1]
      /\ \A k \in 1..Len(list) : Occurrences(v, list[k]) = Occurrences(list, list[k])

\* 100 times v[floor(i)] + (i - floor(i)) * (v[ceil(i)] - v[floor(i)]) for
\* i = (n - 1) * p / 100 over the ascending values v (indexed from 0 in the
\* formula, from 1 here), the upper index clamped to the last element
Interpolated100(values, p) ==
    LET v    == Ascending(values)
        n    == Len(values)
        i100 == (n - 1) * p
        lo   == i100 \div 100
        up   == IF i100 % 100 = 0 THEN lo ELSE lo + 1
        hi   == IF up >= n THEN n - 1 ELSE up
    IN 100 * v[lo + 1] + (i100 - 100 * lo) * (v[hi + 1] - v[lo + 1])

\* C23: for a non-empty list of values and p in [0, 100], _percentile returns
\* the linear interpolation v[floor(i)] + (i - floor(i)) * (v[ceil(i)] - v[floor(i)])
\* over the ascending values, i = (n-1)*p/100, clamped at the last element; so
\* the result lies between the minimum and the maximum, p = 0 gives the minimum,
\* p = 100 the maximum, [10,20,30,40] with p = 95 gives 38.5; and the EC2 and the
\* RDS analyzer compute the same function.
C23_PercentileInterpolates ==
    StatsComputed =>
      LET cpu    == analysis_results[1].metrics.cpu_utilization
          values == cpu.values
          p      == config.analysis.cpu_percentile
      IN
      /\ values # <<>>
      /\ cpu.p95.den = 100
      /\ cpu.p95.num = Interpolated100(values, p)
      /\ \E k \in 1..Len(values) : 100 * values[k] <= cpu.p95.num
      /\ \E k \in 1..Len(values) : cpu.p95.num <= 100 * values[k]
      /\ p = 0 => \A k \in 1..Len(values) : cpu.p95.num <= 100 * values[k]
      /\ p = 100 => \A k \in 1..Len(values) : cpu.p95.num >= 100 * values[k]
      /\ (values = <<10, 20, 30, 40>> /\ p = 95) => cpu.p95.num = 3850
      /\ \A q \in Percentiles : _percentile(values, q) = _percentile_rds(values, q)

\* 38.5 computed by the RDS analyzer from 40, 30, 20, 10
C23_Witness ==
    /\ StatsComputed
    /\ analysis_results[1].analyzer = "rds"
    /\ analysis_results[1].metrics.cpu_utilization.values = <<40, 30, 20, 10>>
    /\ config.analysis.cpu_percentile = 95
    /\ analysis_results[1].metrics.cpu_utilization.p95 = [num |-> 3850, den |-> 100]

(***************************************************************************)
(* What the recommenders and the cost optimizer leave alone.               *)
(***************************************************************************)
\* a step of a recommender or of the cost optimizer leaves the analysis records
\* as they were; a step after EC2Recommender returned leaves its list as it was,
\* and a step after ReservedInstanceRecommender returned leaves its list as it was
FrameStep ==
    /\ pc # "analyze" => analysis_results' = analysis_results
    /\ pc \in {"ec2_returned", "ri_loop", "ri_returned", "savings_done"} =>
         ec2_recommendations' = ec2_recommendations
    /\ pc \in {"ri_returned", "savings_done"} =>
         ri_recommendations' = ri_recommendations

\* C24: neither recommender modifies the input summaries and the aggregator
\* modifies neither recommendation list: across every step of
\* EC2Recommender.generate_recommendations, of
\* ReservedInstanceRecommender.generate_recommendations, of
\* calculate_total_savings and of get_summary_stats the sequences they were given,
\* and every record in them, stay as they were, so that the second recommender
\* reads the summaries the first one read.
C24_InputsUnchanged == [][FrameStep]_vars

\* the end of a main run in which both recommenders returned records and the
\* aggregator produced its totals and counts
C24_Witness ==
    /\ pc = "done"
    /\ Len(analysis_results) = 2
    /\ analysis_results[1].current_cost < analysis_results[2].current_cost
    /\ Len(ec2_recommendations) >= 2
    /\ Len(ri_recommendations) = 2
    /\ savings_summary # None
    /\ stats # None

====
